---- MODULE Spec2Model ----
(***************************************************************************)
(* Model of warp_pipe.py: the process-wide bundle store warp_storage, its  *)
(* lock, the Warp / Unwarp / WarpProvider / FDSchedulerAdapter nodes and  *)
(* the sampler / scheduler coercion functions.                             *)
(***************************************************************************)
EXTENDS Integers, Sequences, FiniteSets, TLC

----------------------------------------------------------------------------
(* Python values.  Every value carried by a bundle is a tagged record so   *)
(* that values of different Python types can be compared.                  *)

None == [t |-> "none", i |-> 0, s |-> ""]

IntV(k) == [t |-> "int", i |-> k, s |-> ""]

StrV(x) == [t |-> "str", i |-> 0, s |-> x]

ObjV(k) == [t |-> "obj", i |-> k, s |-> ""]

\* Python truthiness of a value (None, 0 and "" are falsy).
Truthy(v) == ~(v.t = "none" \/ (v.t = "int" /\ v.i = 0) \/ (v.t = "str" /\ v.s = ""))

\* x in L, for a Python list L.
InList(x, L) == \E k \in DOMAIN L : L[k] = x

----------------------------------------------------------------------------
(* Module-level tables.                                                    *)

\* comfy.samplers.KSampler.SAMPLERS as the module sees it (the list of the
\* development fallback MockKSampler).
SAFE_SAMPLERS ==
  << "euler", "euler_ancestral", "heun", "dpm_2", "dpm_2_ancestral", "lms",
     "dpm_fast", "dpm_adaptive", "dpmpp_2s_ancestral", "dpmpp_sde", "dpmpp_2m" >>

\* comfy.samplers.KSampler.SCHEDULERS as the module sees it.
SAFE_SCHEDULERS ==
  << "normal", "karras", "exponential", "sgm_uniform", "simple", "ddim_uniform" >>

SCHEDULER_ALIASES ==
  [ k \in { "AYS SDXL", "AYS SD1", "AYS SVD", "GITS[coeff=1.2]", "LTXV[default]",
            "OSS FLUX", "OSS Wan", "OSS Chroma" } |-> "karras" ]

FD_SCHEDULERS ==
  << "simple", "sgm_uniform", "karras", "exponential", "ddim_uniform", "beta",
     "normal", "linear_quadratic", "kl_optimal", "FlowMatchEulerDiscreteScheduler",
     "bong_tangent", "AYS SDXL", "AYS SD1", "AYS SVD", "GITS[coeff=1.2]",
     "LTXV[default]", "OSS FLUX", "OSS Wan", "OSS Chroma" >>

\* SCHEDULER_ALIASES.get(name, default); a missing key gives the default.
AliasGet(name, default) ==
  IF name \in DOMAIN SCHEDULER_ALIASES THEN StrV(SCHEDULER_ALIASES[name]) ELSE default

\* coerce_scheduler that lets the names of SCHEDULER_ALIASES through.
coerce_scheduler_keep_alias(v) ==
  IF v.t = "str" /\ InList(v.s, SAFE_SCHEDULERS) THEN v
  ELSE IF v.s \in DOMAIN SCHEDULER_ALIASES THEN v
  ELSE StrV("karras")

coerce_scheduler(v) ==
  IF v.t = "str" /\ InList(v.s, SAFE_SCHEDULERS) THEN v
  ELSE AliasGet(v.s, StrV("karras"))

\* coerce_scheduler_fd that returns the alias without looking it up in
\* FD_SCHEDULERS.
coerce_scheduler_fd_alias(v) ==
  IF v.t = "str" /\ InList(v.s, FD_SCHEDULERS) THEN v
  ELSE AliasGet(v.s, None)

coerce_scheduler_fd(v) ==
  IF v.t = "str" /\ InList(v.s, FD_SCHEDULERS) THEN v
  ELSE LET alias == AliasGet(v.s, None)
       IN  IF alias.t = "str" /\ InList(alias.s, FD_SCHEDULERS) THEN alias
           ELSE StrV("karras")

coerce_sampler(v) ==
  IF v.t = "str" /\ InList(v.s, SAFE_SAMPLERS) THEN v ELSE StrV("euler")

----------------------------------------------------------------------------
(* Dictionaries of named fields.                                           *)

EmptyDict == [k \in {} |-> None]

\* d.get(k, default)
Get(d, k, default) == IF k \in DOMAIN d THEN d[k] ELSE default

\* d[k] = v
Put(d, k, v) == [x \in (DOMAIN d) \cup {k} |-> IF x = k THEN v ELSE d[x]]

\* The keys of the updates dict of Warp.warp, in insertion order.
UpdateKeys ==
  << "image", "mask", "model_1", "model_2", "clip", "clip_vision", "vae",
     "conditioning_positive", "conditioning_negative", "latent",
     "prompt_positive", "prompt_negative", "batch_size", "seed", "steps_1",
     "steps_2", "steps_3", "cfg", "sampler_name", "scheduler", "width", "height" >>

FieldNames == { UpdateKeys[k] : k \in DOMAIN UpdateKeys }

\* Unwarp.RETURN_NAMES
RETURN_NAMES ==
  << "model_1", "model_2", "image", "mask", "clip", "clip_vision", "vae",
     "conditioning_positive", "conditioning_negative", "latent",
     "prompt_positive", "prompt_negative", "batch_size", "seed", "steps_1",
     "steps_2", "steps_3", "cfg", "sampler_name", "scheduler", "width", "height" >>

\* Unwarp.RETURN_TYPES (the two enum entries are named by their list)
RETURN_TYPES ==
  << "MODEL", "MODEL", "IMAGE", "MASK", "CLIP", "CLIP_VISION", "VAE",
     "CONDITIONING", "CONDITIONING", "LATENT", "STRING", "STRING", "INT", "INT",
     "INT", "INT", "INT", "FLOAT", "SAFE_SAMPLERS", "SAFE_SCHEDULERS", "INT", "INT" >>

----------------------------------------------------------------------------
(* Warp.warp, the computation between the store read and the store write.  *)

\* The warp argument of a node: nothing connected, a value that is not a
\* dict with an "id", or {"id": x}.
NoWarp == [kind |-> "none", id |-> ""]

JunkWarp == [kind |-> "junk", id |-> ""]

Ref(x) == [kind |-> "dict", id |-> x]

\* isinstance(warp, dict) and "id" in warp
HasId(w) == w.kind = "dict"

\* warp_storage.get(prev_id, {}).copy(), or {} when there is no usable input
PriorData(st, w) ==
  IF HasId(w) THEN Get(st, w.id, EmptyDict) ELSE EmptyDict

\* The updates dict: the keyword arguments with sampler_name and scheduler
\* normalized.
Updates(kw) ==
  [ k \in FieldNames |->
      IF k = "sampler_name"
        THEN (IF kw[k] # None THEN coerce_sampler(kw[k]) ELSE None)
      ELSE IF k = "scheduler"
        THEN (IF kw[k] # None THEN coerce_scheduler(kw[k]) ELSE None)
      ELSE kw[k] ]

\* The loop of lines 266-268 with "if val:" for "if val is not None:".
RECURSIVE ApplyUpdatesTruthy(_, _, _)
ApplyUpdatesTruthy(data, updates, k) ==
  IF k > Len(UpdateKeys) THEN data
  ELSE LET key == UpdateKeys[k]
           val == updates[key]
       IN  ApplyUpdatesTruthy(IF Truthy(val) THEN Put(data, key, val) ELSE data,
                              updates, k + 1)

\* for key, val in updates.items(): if val is not None: data[key] = val
RECURSIVE ApplyUpdates(_, _, _)
ApplyUpdates(data, updates, k) ==
  IF k > Len(UpdateKeys) THEN data
  ELSE LET key == UpdateKeys[k]
           val == updates[key]
       IN  ApplyUpdates(IF val # None THEN Put(data, key, val) ELSE data,
                        updates, k + 1)

----------------------------------------------------------------------------
(* Unwarp.unwarp, the computation after the store read.                    *)

\* Unwarp._return_empty_values
ReturnEmptyValues == [k \in 1..Len(RETURN_TYPES) |-> None]

\* The tuple of Unwarp.unwarp with the values in the order of the keyword
\* arguments of Warp.warp instead of the order of RETURN_NAMES.
UnwarpRetKwargsOrder(data) ==
  IF DOMAIN data = {} THEN ReturnEmptyValues
  ELSE [ k \in 1..Len(UpdateKeys) |->
           LET f == UpdateKeys[k]
           IN  IF f = "sampler_name" THEN coerce_sampler(Get(data, f, StrV("euler")))
               ELSE IF f = "scheduler" THEN coerce_scheduler(Get(data, f, StrV("karras")))
               ELSE IF f \in {"width", "height"} THEN Get(data, f, IntV(1024))
               ELSE Get(data, f, None) ]

\* The tuple of Unwarp.unwarp without the early return for an empty bundle.
UnwarpRetNoEmptyCheck(data) ==
  [ k \in 1..Len(RETURN_NAMES) |->
      LET f == RETURN_NAMES[k]
      IN  IF f = "sampler_name" THEN coerce_sampler(Get(data, f, StrV("euler")))
          ELSE IF f = "scheduler" THEN coerce_scheduler(Get(data, f, StrV("karras")))
          ELSE IF f \in {"width", "height"} THEN Get(data, f, IntV(1024))
          ELSE Get(data, f, None) ]

\* Lines 360-403: the tuple built from the dict that was read.
UnwarpRet(data) ==
  IF DOMAIN data = {} THEN ReturnEmptyValues
  ELSE LET width  == Get(data, "width", IntV(1024))
           height == Get(data, "height", IntV(1024))
           latent_out == Get(data, "latent", None)
       IN  << Get(data, "model_1", None),
              Get(data, "model_2", None),
              Get(data, "image", None),
              Get(data, "mask", None),
              Get(data, "clip", None),
              Get(data, "clip_vision", None),
              Get(data, "vae", None),
              Get(data, "conditioning_positive", None),
              Get(data, "conditioning_negative", None),
              latent_out,
              Get(data, "prompt_positive", None),
              Get(data, "prompt_negative", None),
              Get(data, "batch_size", None),
              Get(data, "seed", None),
              Get(data, "steps_1", None),
              Get(data, "steps_2", None),
              Get(data, "steps_3", None),
              Get(data, "cfg", None),
              coerce_sampler(Get(data, "sampler_name", StrV("euler"))),
              coerce_scheduler(Get(data, "scheduler", StrV("karras"))),
              width,
              height >>

----------------------------------------------------------------------------
(* WarpProvider.provide and FDSchedulerAdapter.adapt.  A Python string    *)
(* that the code parses is a sequence of its characters; "radic" and      *)
(* "oacute" stand for the characters U+221A and U+00F3 of the source.     *)

\* size_presets of WarpProvider.INPUT_TYPES
SIZE_PRESETS ==
  <<
    << "M", "o", "b", "i", "l", "e", "/", "S", "t", "o", "r", "i", "e", "s", " ", "(", "s", "m", "a", "l", "l", ")", " ", " ", " ", " ", " ", " ", "|", " ", " ", "9", ":", "1", "6", " ", " ", "|", " ", " ", " ", "5", "7", "6", " ", "radic", "oacute", " ", " ", "1", "0", "2", "4", " ", " ", "|", " ", " ", "0", ".", "5", "9", " ", "M", "P" >>,
    << "M", "o", "b", "i", "l", "e", "/", "S", "t", "o", "r", "i", "e", "s", " ", "(", "H", "D", ")", " ", " ", " ", " ", " ", " ", " ", " ", " ", "|", " ", " ", "9", ":", "1", "6", " ", " ", "|", " ", " ", " ", "7", "2", "0", " ", "radic", "oacute", " ", " ", "1", "2", "8", "0", " ", " ", "|", " ", " ", "0", ".", "9", "2", " ", "M", "P" >>,
    << "M", "o", "b", "i", "l", "e", "/", "S", "t", "o", "r", "i", "e", "s", " ", "(", "F", "u", "l", "l", " ", "H", "D", ")", " ", " ", " ", " ", "|", " ", " ", "9", ":", "1", "6", " ", " ", "|", " ", " ", "1", "0", "8", "0", " ", "radic", "oacute", " ", " ", "1", "9", "2", "0", " ", " ", "|", " ", " ", "2", ".", "0", "7", " ", "M", "P" >>,
    << "M", "o", "b", "i", "l", "e", "/", "S", "t", "o", "r", "i", "e", "s", " ", "(", "m", "a", "x", ")", " ", " ", " ", " ", " ", " ", " ", " ", "|", " ", " ", "9", ":", "1", "6", " ", " ", "|", " ", " ", "1", "1", "5", "2", " ", "radic", "oacute", " ", " ", "2", "0", "4", "8", " ", " ", "|", " ", " ", "2", ".", "3", "6", " ", "M", "P" >>,
    << "P", "o", "r", "t", "r", "a", "i", "t", " ", "(", "c", "l", "a", "s", "s", "i", "c", ")", " ", " ", " ", " ", " ", " ", " ", " ", " ", " ", "|", " ", " ", "3", ":", "4", " ", " ", " ", "|", " ", " ", " ", "7", "6", "8", " ", "radic", "oacute", " ", " ", "1", "0", "2", "4", " ", " ", "|", " ", " ", "0", ".", "7", "9", " ", "M", "P" >>,
    << "P", "o", "r", "t", "r", "a", "i", "t", " ", "(", "h", "i", "g", "h", "-", "r", "e", "s", ")", " ", " ", " ", " ", " ", " ", " ", " ", " ", "|", " ", " ", "3", ":", "4", " ", " ", " ", "|", " ", " ", "1", "1", "5", "2", " ", "radic", "oacute", " ", " ", "1", "5", "3", "6", " ", " ", "|", " ", " ", "1", ".", "7", "7", " ", "M", "P" >>,
    << "P", "o", "r", "t", "r", "a", "i", "t", " ", "(", "m", "a", "x", ")", " ", " ", " ", " ", " ", " ", " ", " ", " ", " ", " ", " ", " ", " ", "|", " ", " ", "3", ":", "4", " ", " ", " ", "|", " ", " ", "1", "5", "3", "6", " ", "radic", "oacute", " ", " ", "2", "0", "4", "8", " ", " ", "|", " ", " ", "3", ".", "1", "5", " ", "M", "P" >>,
    << "P", "h", "o", "t", "o", " ", "p", "o", "r", "t", "r", "a", "i", "t", " ", " ", " ", " ", " ", " ", " ", " ", " ", " ", " ", " ", " ", " ", "|", " ", " ", "2", ":", "3", " ", " ", " ", "|", " ", " ", " ", "8", "3", "2", " ", "radic", "oacute", " ", " ", "1", "2", "4", "8", " ", " ", "|", " ", " ", "1", ".", "0", "4", " ", "M", "P" >>,
    << "P", "h", "o", "t", "o", " ", "p", "o", "r", "t", "r", "a", "i", "t", " ", "(", "h", "i", "g", "h", "-", "r", "e", "s", ")", " ", " ", " ", "|", " ", " ", "2", ":", "3", " ", " ", " ", "|", " ", " ", "1", "0", "2", "4", " ", "radic", "oacute", " ", " ", "1", "5", "3", "6", " ", " ", "|", " ", " ", "1", ".", "5", "7", " ", "M", "P" >>,
    << "P", "h", "o", "t", "o", " ", "p", "o", "r", "t", "r", "a", "i", "t", " ", "(", "m", "a", "x", ")", " ", " ", " ", " ", " ", " ", " ", " ", "|", " ", " ", "2", ":", "3", " ", " ", " ", "|", " ", " ", "1", "3", "6", "8", " ", "radic", "oacute", " ", " ", "2", "0", "4", "8", " ", " ", "|", " ", " ", "2", ".", "8", "0", " ", "M", "P" >>,
    << "I", "n", "s", "t", "a", "g", "r", "a", "m", " ", "p", "o", "r", "t", "r", "a", "i", "t", " ", " ", " ", " ", " ", " ", " ", " ", " ", " ", "|", " ", " ", "4", ":", "5", " ", " ", " ", "|", " ", " ", " ", "8", "1", "6", " ", "radic", "oacute", " ", " ", "1", "0", "2", "4", " ", " ", "|", " ", " ", "0", ".", "8", "4", " ", "M", "P" >>,
    << "I", "n", "s", "t", "a", "g", "r", "a", "m", " ", "p", "o", "r", "t", "r", "a", "i", "t", " ", "(", "h", "i", "-", "r", "e", "s", ")", " ", "|", " ", " ", "4", ":", "5", " ", " ", " ", "|", " ", " ", "1", "2", "2", "4", " ", "radic", "oacute", " ", " ", "1", "5", "3", "6", " ", " ", "|", " ", " ", "1", ".", "8", "8", " ", "M", "P" >>,
    << "I", "n", "s", "t", "a", "g", "r", "a", "m", " ", "p", "o", "r", "t", "r", "a", "i", "t", " ", "(", "m", "a", "x", ")", " ", " ", " ", " ", "|", " ", " ", "4", ":", "5", " ", " ", " ", "|", " ", " ", "1", "6", "4", "0", " ", "radic", "oacute", " ", " ", "2", "0", "4", "8", " ", " ", "|", " ", " ", "3", ".", "3", "6", " ", "M", "P" >>,
    << "S", "q", "u", "a", "r", "e", " ", "(", "s", "m", "a", "l", "l", ")", " ", " ", " ", " ", " ", " ", " ", " ", " ", " ", " ", " ", " ", " ", "|", " ", " ", "1", ":", "1", " ", " ", " ", "|", " ", " ", " ", "7", "6", "8", " ", "radic", "oacute", " ", " ", " ", "7", "6", "8", " ", " ", "|", " ", " ", "0", ".", "5", "9", " ", "M", "P" >>,
    << "S", "q", "u", "a", "r", "e", " ", "(", "S", "D", "X", "L", " ", "n", "a", "t", "i", "v", "e", ")", " ", " ", " ", " ", " ", " ", " ", " ", "|", " ", " ", "1", ":", "1", " ", " ", " ", "|", " ", " ", "1", "0", "2", "4", " ", "radic", "oacute", " ", " ", "1", "0", "2", "4", " ", " ", "|", " ", " ", "1", ".", "0", "5", " ", "M", "P" >>,
    << "S", "q", "u", "a", "r", "e", " ", "(", "h", "i", "g", "h", "-", "r", "e", "s", ")", " ", " ", " ", " ", " ", " ", " ", " ", " ", " ", " ", "|", " ", " ", "1", ":", "1", " ", " ", " ", "|", " ", " ", "1", "5", "3", "6", " ", "radic", "oacute", " ", " ", "1", "5", "3", "6", " ", " ", "|", " ", " ", "2", ".", "3", "6", " ", "M", "P" >>,
    << "S", "q", "u", "a", "r", "e", " ", "(", "m", "a", "x", ")", " ", " ", " ", " ", " ", " ", " ", " ", " ", " ", " ", " ", " ", " ", " ", " ", "|", " ", " ", "1", ":", "1", " ", " ", " ", "|", " ", " ", "2", "0", "4", "8", " ", "radic", "oacute", " ", " ", "2", "0", "4", "8", " ", " ", "|", " ", " ", "4", ".", "1", "9", " ", "M", "P" >>,
    << "I", "n", "s", "t", "a", "g", "r", "a", "m", " ", "l", "a", "n", "d", "s", "c", "a", "p", "e", " ", " ", " ", " ", " ", " ", " ", " ", " ", "|", " ", " ", "5", ":", "4", " ", " ", " ", "|", " ", " ", "1", "0", "2", "4", " ", "radic", "oacute", " ", " ", " ", "8", "1", "6", " ", " ", "|", " ", " ", "0", ".", "8", "4", " ", "M", "P" >>,
    << "I", "n", "s", "t", "a", "g", "r", "a", "m", " ", "l", "a", "n", "d", "s", "c", "a", "p", "e", " ", "(", "h", "i", "-", "r", "e", "s", ")", "|", " ", " ", "5", ":", "4", " ", " ", " ", "|", " ", " ", "1", "5", "3", "6", " ", "radic", "oacute", " ", " ", "1", "2", "2", "4", " ", " ", "|", " ", " ", "1", ".", "8", "8", " ", "M", "P" >>,
    << "I", "n", "s", "t", "a", "g", "r", "a", "m", " ", "l", "a", "n", "d", "s", "c", "a", "p", "e", " ", "(", "m", "a", "x", ")", " ", " ", " ", "|", " ", " ", "5", ":", "4", " ", " ", " ", "|", " ", " ", "2", "0", "4", "8", " ", "radic", "oacute", " ", " ", "1", "6", "4", "0", " ", " ", "|", " ", " ", "3", ".", "3", "6", " ", "M", "P" >>,
    << "P", "h", "o", "t", "o", " ", "l", "a", "n", "d", "s", "c", "a", "p", "e", " ", " ", " ", " ", " ", " ", " ", " ", " ", " ", " ", " ", " ", "|", " ", " ", "3", ":", "2", " ", " ", " ", "|", " ", " ", "1", "2", "4", "8", " ", "radic", "oacute", " ", " ", " ", "8", "3", "2", " ", " ", "|", " ", " ", "1", ".", "0", "4", " ", "M", "P" >>,
    << "P", "h", "o", "t", "o", " ", "l", "a", "n", "d", "s", "c", "a", "p", "e", " ", "(", "h", "i", "g", "h", "-", "r", "e", "s", ")", " ", " ", "|", " ", " ", "3", ":", "2", " ", " ", " ", "|", " ", " ", "1", "5", "3", "6", " ", "radic", "oacute", " ", " ", "1", "0", "2", "4", " ", " ", "|", " ", " ", "1", ".", "5", "7", " ", "M", "P" >>,
    << "P", "h", "o", "t", "o", " ", "l", "a", "n", "d", "s", "c", "a", "p", "e", " ", "(", "m", "a", "x", ")", " ", " ", " ", " ", " ", " ", " ", "|", " ", " ", "3", ":", "2", " ", " ", " ", "|", " ", " ", "2", "0", "4", "8", " ", "radic", "oacute", " ", " ", "1", "3", "6", "8", " ", " ", "|", " ", " ", "2", ".", "8", "0", " ", "M", "P" >>,
    << "L", "a", "n", "d", "s", "c", "a", "p", "e", " ", "(", "c", "l", "a", "s", "s", "i", "c", ")", " ", " ", " ", " ", " ", " ", " ", " ", " ", "|", " ", " ", "4", ":", "3", " ", " ", " ", "|", " ", " ", "1", "0", "2", "4", " ", "radic", "oacute", " ", " ", " ", "7", "6", "8", " ", " ", "|", " ", " ", "0", ".", "7", "9", " ", "M", "P" >>,
    << "L", "a", "n", "d", "s", "c", "a", "p", "e", " ", "(", "h", "i", "g", "h", "-", "r", "e", "s", ")", " ", " ", " ", " ", " ", " ", " ", " ", "|", " ", " ", "4", ":", "3", " ", " ", " ", "|", " ", " ", "1", "5", "3", "6", " ", "radic", "oacute", " ", " ", "1", "1", "5", "2", " ", " ", "|", " ", " ", "1", ".", "7", "7", " ", "M", "P" >>,
    << "L", "a", "n", "d", "s", "c", "a", "p", "e", " ", "(", "m", "a", "x", ")", " ", " ", " ", " ", " ", " ", " ", " ", " ", " ", " ", " ", " ", "|", " ", " ", "4", ":", "3", " ", " ", " ", "|", " ", " ", "2", "0", "4", "8", " ", "radic", "oacute", " ", " ", "1", "5", "3", "6", " ", " ", "|", " ", " ", "3", ".", "1", "5", " ", "M", "P" >>,
    << "W", "i", "d", "e", "s", "c", "r", "e", "e", "n", " ", "(", "s", "m", "a", "l", "l", ")", " ", " ", " ", " ", " ", " ", " ", " ", " ", " ", "|", " ", " ", "1", "6", ":", "9", " ", " ", "|", " ", " ", "1", "0", "2", "4", " ", "radic", "oacute", " ", " ", " ", "5", "7", "6", " ", " ", "|", " ", " ", "0", ".", "5", "9", " ", "M", "P" >>,
    << "W", "i", "d", "e", "s", "c", "r", "e", "e", "n", " ", "(", "7", "2", "0", "p", ")", " ", " ", " ", " ", " ", " ", " ", " ", " ", " ", " ", "|", " ", " ", "1", "6", ":", "9", " ", " ", "|", " ", " ", "1", "2", "8", "0", " ", "radic", "oacute", " ", " ", " ", "7", "2", "0", " ", " ", "|", " ", " ", "0", ".", "9", "2", " ", "M", "P" >>,
    << "W", "i", "d", "e", "s", "c", "r", "e", "e", "n", " ", "(", "1", "0", "8", "0", "p", ")", " ", " ", " ", " ", " ", " ", " ", " ", " ", " ", "|", " ", " ", "1", "6", ":", "9", " ", " ", "|", " ", " ", "1", "9", "2", "0", " ", "radic", "oacute", " ", " ", "1", "0", "8", "0", " ", " ", "|", " ", " ", "2", ".", "0", "7", " ", "M", "P" >>,
    << "W", "i", "d", "e", "s", "c", "r", "e", "e", "n", " ", "(", "m", "a", "x", ")", " ", " ", " ", " ", " ", " ", " ", " ", " ", " ", " ", " ", "|", " ", " ", "1", "6", ":", "9", " ", " ", "|", " ", " ", "2", "0", "4", "8", " ", "radic", "oacute", " ", " ", "1", "1", "5", "2", " ", " ", "|", " ", " ", "2", ".", "3", "6", " ", "M", "P" >>,
    << "C", "u", "s", "t", "o", "m" >>
  >>

\* The default of size_preset in the signature of provide.
DEFAULT_SIZE_PRESET ==
  << "S", "q", "u", "a", "r", "e", " ", "(", "S", "D", "X", "L", " ", "n", "a", "t", "i", "v", "e", ")", " ", " ", " ", " ", " ", " ", " ", " ", "|", " ", " ", "1", ":", "1", " ", " ", " ", "|", " ", " ", "1", "0", "2", "4", " ", "radic", "oacute", " ", " ", "1", "0", "2", "4", " ", " ", "|", " ", " ", "1", ".", "0", "5", " ", "M", "P" >>

CUSTOM == << "C", "u", "s", "t", "o", "m" >>

\* \d of a Python regular expression
IsDigit(c) == c \in {"0", "1", "2", "3", "4", "5", "6", "7", "8", "9"}

\* \s of a Python regular expression
IsSpace(c) == c \in {" ", "\t", "\n"}

DigitValue(c) ==
  CASE c = "0" -> 0 [] c = "1" -> 1 [] c = "2" -> 2 [] c = "3" -> 3 [] c = "4" -> 4
    [] c = "5" -> 5 [] c = "6" -> 6 [] c = "7" -> 7 [] c = "8" -> 8 [] c = "9" -> 9

\* int(text) for a string of decimal digits text = s[a..b]
RECURSIVE ParseInt(_, _, _)
ParseInt(s, a, b) ==
  IF b < a THEN 0 ELSE 10 * ParseInt(s, a, b - 1) + DigitValue(s[b])

\* End of the longest run of digits that starts at position a (a - 1 when
\* s[a] is no digit): the greedy \d+.
RECURSIVE DigitsEnd(_, _)
DigitsEnd(s, a) ==
  IF a <= Len(s) /\ IsDigit(s[a]) THEN DigitsEnd(s, a + 1) ELSE a - 1

\* First position at or after a that holds no whitespace: the greedy \s*.
RECURSIVE SkipSpaces(_, _)
SkipSpaces(s, a) ==
  IF a <= Len(s) /\ IsSpace(s[a]) THEN SkipSpaces(s, a + 1) ELSE a

\* Whether the literal sep stands at position a of s.
LiteralAt(s, a, sep) ==
  /\ a + Len(sep) - 1 <= Len(s)
  /\ \A k \in 1..Len(sep) : s[a + k - 1] = sep[k]

NoMatch == << >>

\* The match of (\d+)\s*sep\s*(\d+) that starts at position a, for a literal
\* among seps: << group 1, group 2 >> as integers, or NoMatch.
MatchAt(s, a, seps) ==
  LET b == DigitsEnd(s, a)
      c == SkipSpaces(s, b + 1)
      hit == { sep \in seps : LiteralAt(s, c, sep) }
  IN  IF b < a \/ hit = {} THEN NoMatch
      ELSE LET sep == CHOOSE x \in hit : TRUE
               d == SkipSpaces(s, c + Len(sep))
               e == DigitsEnd(s, d)
           IN  IF e < d THEN NoMatch
               ELSE << ParseInt(s, a, b), ParseInt(s, d, e) >>

\* The leftmost match at or after position a.
RECURSIVE SearchFrom(_, _, _)
SearchFrom(s, a, seps) ==
  IF a > Len(s) THEN NoMatch
  ELSE IF IsDigit(s[a]) /\ MatchAt(s, a, seps) # NoMatch THEN MatchAt(s, a, seps)
  ELSE SearchFrom(s, a + 1, seps)

\* re.search: the match at the leftmost position that has one.
ReSearch(s, seps) == SearchFrom(s, 1, seps)

\* parse_size_preset that takes the first two numbers with a colon between
\* them: the aspect ratio of an entry instead of its dimensions.
parse_size_preset_ratio(preset) ==
  LET m0 == ReSearch(preset, { << ":" >> })
  IN  IF m0 # NoMatch THEN m0 ELSE << 1024, 1024 >>

\* parse_size_preset of WarpProvider.provide
parse_size_preset(preset) ==
  LET m1 == ReSearch(preset, { << "radic", "oacute" >> })
      m2 == ReSearch(preset, { << "x" >>, << "X" >> })
  IN  IF m1 # NoMatch THEN m1
      ELSE IF m2 # NoMatch THEN m2
      ELSE << 1024, 1024 >>

\* create_empty_latent with the two spatial dimensions exchanged.
create_empty_latent_swapped(width, height, batch_size) ==
  << batch_size, 4, width \div 8, height \div 8 >>

\* create_empty_latent of WarpProvider.provide: the shape of the zero tensor
create_empty_latent(width, height, batch_size) ==
  << batch_size, 4, height \div 8, width \div 8 >>

\* The tuple WarpProvider.provide returns.
ProvideRet(batch_size, seed, steps_1, steps_2, steps_3, cfg, sampler_name, scheduler, size_preset, custom_width, custom_height) ==
  LET dims == IF size_preset = CUSTOM THEN << custom_width, custom_height >>
              ELSE parse_size_preset(size_preset)
      width == dims[1]
      height == dims[2]
      latent == create_empty_latent(width, height, batch_size)
      actual_seed == seed
  IN  << latent, batch_size, actual_seed, steps_1, steps_2, steps_3, cfg,
         coerce_sampler(sampler_name), coerce_scheduler(scheduler), width, height >>

----------------------------------------------------------------------------
(* The node graph: Warp node instances, one Unwarp node, the store.        *)

\* The Warp node instances of the graph.
Nodes == {"n1", "n2"}

\* Warp.__init__: self._warp_id = uuid.uuid4().hex, one identifier per
\* instance, different for different instances.
WarpId == [n \in Nodes |-> IF n = "n1" THEN "id1" ELSE "id2"]

\* Bound on the number of node executions the executor starts.
MaxCalls == 2

\* Position of a field among the keyword arguments of Warp.warp.
KeyIndex(f) == CHOOSE k \in DOMAIN UpdateKeys : UpdateKeys[k] = f

\* Inputs declared MODEL, IMAGE, MASK, CLIP, CLIP_VISION, VAE, CONDITIONING,
\* LATENT; the others are STRING, INT, FLOAT or an enum.
ObjectFields ==
  { "image", "mask", "model_1", "model_2", "clip", "clip_vision", "vae",
    "conditioning_positive", "conditioning_negative", "latent" }

ParamFields == FieldNames \ ObjectFields

\* Two values per input, by the input's declared type.  The first is
\* different for every field; the second is the falsy value of the type where
\* it has one, and a name outside the host's lists for the two enums.
FirstValue(f) ==
  IF f \in ObjectFields THEN ObjV(KeyIndex(f))
  ELSE IF f \in {"prompt_positive", "prompt_negative"} THEN StrV(f)
  ELSE IF f = "sampler_name" THEN StrV("heun")
  ELSE IF f = "scheduler" THEN StrV("normal")
  ELSE IntV(KeyIndex(f))

SecondValue(f) ==
  IF f \in ObjectFields THEN ObjV(KeyIndex(f) + Len(UpdateKeys))
  ELSE IF f \in {"prompt_positive", "prompt_negative"} THEN StrV("")
  ELSE IF f = "sampler_name" THEN StrV("uni_pc")
  ELSE IF f = "scheduler" THEN StrV("AYS SDXL")
  ELSE IntV(0)

NoKwargs == [k \in FieldNames |-> None]

\* The sets of inputs that are connected in one call.
SupplySets == { {}, ObjectFields, ParamFields, FieldNames }

\* The keyword arguments of one Warp.warp call: the connected inputs carry
\* their first or their second value, the others are None.
KwargsInputs ==
  { [f \in FieldNames |-> IF f \in S THEN FirstValue(f) ELSE None] : S \in SupplySets }
  \cup
  { [f \in FieldNames |-> IF f \in S THEN SecondValue(f) ELSE None] : S \in SupplySets }

\* What the graph can connect to a warp input.
WarpInputs == {NoWarp, JunkWarp} \cup { Ref(WarpId[n]) : n \in Nodes }

\* Strings outside size_presets that a caller can pass as size_preset: the
\* old "WxH" format, strings without dimensions, several candidates.
OTHER_PRESETS ==
  {
    << "1", "0", "2", "4", "x", "1", "0", "2", "4" >>,
    << "5", "1", "2", " ", "X", " ", "7", "6", "8" >>,
    << "S", "m", "a", "l", "l" >>,
    << "c", "u", "s", "t", "o", "m" >>,
    << "6", "4", "0", " ", "radic", " ", "4", "8", "0" >>,
    << "2", "x", "3", " ", "4", "radic", "oacute", "5" >>,
    << "1", "6", ":", "9" >>,
    << "7", "radic", "oacute" >>,
    <<  >>
  }

PresetInputs == { SIZE_PRESETS[k] : k \in DOMAIN SIZE_PRESETS } \cup OTHER_PRESETS

\* custom_width / custom_height: the minimum and the default of INPUT_TYPES.
CustomSizes == {64, 1024}

BatchSizes == {1, 2}

\* << seed, steps_1, steps_2, steps_3, cfg >>: the defaults of provide, and
\* five values that differ from each other.
ScalarInputs == { << 0, 20, 0, 0, 7 >>, << 5, 30, 10, 4, 8 >> }

\* Every scheduler name the module mentions, and two it does not.
SchedulerNames ==
  { SAFE_SCHEDULERS[k] : k \in DOMAIN SAFE_SCHEDULERS }
  \cup { FD_SCHEDULERS[k] : k \in DOMAIN FD_SCHEDULERS }
  \cup DOMAIN SCHEDULER_ALIASES
  \cup { "res_multistep", "" }

\* Every sampler name the module mentions, and two it does not.
SamplerNames == { SAFE_SAMPLERS[k] : k \in DOMAIN SAFE_SAMPLERS } \cup { "uni_pc", "" }

VARIABLES
  warp_storage,  \* the module-level dict: identifier -> dict of fields
  lock,          \* holder of _storage_lock, or "free"
  calls,         \* number of executions of Warp, WarpProvider and FDSchedulerAdapter started
  pc,            \* per Warp node: where its execution of warp() stands
  warg,          \* per Warp node: the warp argument of the running call
  kwargs,        \* per Warp node: the other arguments of the running call
  data,          \* per Warp node: the local dict data
  seen,          \* per Warp node: the store as lines 227-231 found it (history)
  log,           \* per Warp node: its completed executions (history)
  upc,           \* the Unwarp node: where its execution of unwarp() stands
  uarg,          \* the Unwarp node: the warp argument of the last call
  udata,         \* the Unwarp node: the local dict data
  useen,         \* the Unwarp node: the store as line 357 found it (history)
  uret,          \* the Unwarp node: the tuple returned by the last call
  pargs,         \* the WarpProvider node: the arguments of the last call
  pret,          \* the WarpProvider node: the tuple returned by the last call
  aarg,          \* the FDSchedulerAdapter node: the argument of the last call
  aret           \* the FDSchedulerAdapter node: the value returned by the last call

vars == << warp_storage, lock, calls, pc, warg, kwargs, data, seen, log,
           upc, uarg, udata, useen, uret, pargs, pret, aarg, aret >>

warpVars == << pc, warg, kwargs, data, seen, log >>

unwarpVars == << upc, uarg, udata, useen, uret >>

paramVars == << pargs, pret, aarg, aret >>

NotReturned == << >>

\* warp_storage = {}
EmptyStore == [x \in {} |-> EmptyDict]

Init ==
  /\ warp_storage = EmptyStore
  /\ lock = "free"
  /\ calls = 0
  /\ pc = [n \in Nodes |-> "idle"]
  /\ warg = [n \in Nodes |-> NoWarp]
  /\ kwargs = [n \in Nodes |-> NoKwargs]
  /\ data = [n \in Nodes |-> EmptyDict]
  /\ seen = [n \in Nodes |-> EmptyStore]
  /\ log = [n \in Nodes |-> << >>]
  /\ upc = "idle"
  /\ uarg = NoWarp
  /\ udata = EmptyDict
  /\ useen = EmptyStore
  /\ uret = NotReturned
  /\ pargs = NotReturned
  /\ pret = NotReturned
  /\ aarg = None
  /\ aret = None

\* The executor invokes warp() of node n.  The graph is acyclic: the input of
\* a node never carries the bundle the node itself issues.
WarpCall(n, w, kw) ==
  /\ pc[n] = "idle"
  /\ w # Ref(WarpId[n])
  /\ calls < MaxCalls
  /\ calls' = calls + 1
  /\ warg' = [warg EXCEPT ![n] = w]
  /\ kwargs' = [kwargs EXCEPT ![n] = kw]
  /\ pc' = [pc EXCEPT ![n] = "w_read"]
  /\ UNCHANGED << warp_storage, lock, data, seen, log >>
  /\ UNCHANGED unwarpVars
  /\ UNCHANGED paramVars

\* Lines 226-268: read the prior bundle (no lock taken), copy it, overlay the
\* non-None inputs.
WarpRead(n) ==
  /\ pc[n] = "w_read"
  /\ seen' = [seen EXCEPT ![n] = warp_storage]
  /\ data' = [data EXCEPT ![n] =
                ApplyUpdates(PriorData(warp_storage, warg[n]), Updates(kwargs[n]), 1)]
  /\ pc' = [pc EXCEPT ![n] = "w_acquire"]
  /\ UNCHANGED << warp_storage, lock, calls, warg, kwargs, log >>
  /\ UNCHANGED unwarpVars
  /\ UNCHANGED paramVars

\* Line 270: with _storage_lock (blocks until the lock is free).
WarpAcquire(n) ==
  /\ pc[n] = "w_acquire"
  /\ lock = "free"
  /\ lock' = n
  /\ pc' = [pc EXCEPT ![n] = "w_write"]
  /\ UNCHANGED << warp_storage, calls, warg, kwargs, data, seen, log >>
  /\ UNCHANGED unwarpVars
  /\ UNCHANGED paramVars

\* WarpWrite with the overlay applied to the prior bundle in place: the dict
\* ends up under the input's identifier as well as under the node's own.
WarpWriteInPlace(n) ==
  /\ pc[n] = "w_write"
  /\ lock = n
  /\ warp_storage' =
       IF HasId(warg[n]) /\ warg[n].id \in DOMAIN warp_storage
         THEN Put(Put(warp_storage, warg[n].id, data[n]), WarpId[n], data[n])
         ELSE Put(warp_storage, WarpId[n], data[n])
  /\ lock' = "free"
  /\ log' = [log EXCEPT ![n] = Append(@, [ret |-> Ref(WarpId[n]), fields |-> data[n],
                                          warg |-> warg[n], kwargs |-> kwargs[n],
                                          seen |-> seen[n]])]
  /\ pc' = [pc EXCEPT ![n] = "idle"]
  /\ warg' = [warg EXCEPT ![n] = NoWarp]
  /\ kwargs' = [kwargs EXCEPT ![n] = NoKwargs]
  /\ data' = [data EXCEPT ![n] = EmptyDict]
  /\ seen' = [seen EXCEPT ![n] = EmptyStore]
  /\ UNCHANGED calls
  /\ UNCHANGED unwarpVars
  /\ UNCHANGED paramVars

\* WarpWrite that extends the input bundle instead of branching: a connected
\* bundle is updated under its own identifier and handed on.
WarpWriteSameId(n) ==
  LET target == IF HasId(warg[n]) THEN warg[n].id ELSE WarpId[n]
  IN  /\ pc[n] = "w_write"
      /\ lock = n
      /\ warp_storage' = Put(warp_storage, target, data[n])
      /\ lock' = "free"
      /\ log' = [log EXCEPT ![n] = Append(@, [ret |-> Ref(target), fields |-> data[n],
                                              warg |-> warg[n], kwargs |-> kwargs[n],
                                              seen |-> seen[n]])]
      /\ pc' = [pc EXCEPT ![n] = "idle"]
      /\ warg' = [warg EXCEPT ![n] = NoWarp]
      /\ kwargs' = [kwargs EXCEPT ![n] = NoKwargs]
      /\ data' = [data EXCEPT ![n] = EmptyDict]
      /\ seen' = [seen EXCEPT ![n] = EmptyStore]
      /\ UNCHANGED calls
      /\ UNCHANGED unwarpVars
      /\ UNCHANGED paramVars

\* Lines 271-276: store the dict under the node's identifier, release the
\* lock, return ({"id": self._warp_id},).
WarpWrite(n) ==
  /\ pc[n] = "w_write"
  /\ lock = n
  /\ warp_storage' = Put(warp_storage, WarpId[n], data[n])
  /\ lock' = "free"
  /\ log' = [log EXCEPT ![n] = Append(@, [ret |-> Ref(WarpId[n]), fields |-> data[n],
                                          warg |-> warg[n], kwargs |-> kwargs[n],
                                          seen |-> seen[n]])]
  /\ pc' = [pc EXCEPT ![n] = "idle"]
  /\ warg' = [warg EXCEPT ![n] = NoWarp]
  /\ kwargs' = [kwargs EXCEPT ![n] = NoKwargs]
  /\ data' = [data EXCEPT ![n] = EmptyDict]
  /\ seen' = [seen EXCEPT ![n] = EmptyStore]
  /\ UNCHANGED calls
  /\ UNCHANGED unwarpVars
  /\ UNCHANGED paramVars

\* Lines 345-355: the executor invokes unwarp(); no bundle or an unusable one
\* returns the empty values at once.
UnwarpCall(w) ==
  /\ upc = "idle"
  /\ uarg' = w
  /\ udata' = EmptyDict
  /\ useen' = EmptyStore
  /\ IF w.kind = "none" \/ ~HasId(w)
       THEN /\ uret' = ReturnEmptyValues
            /\ upc' = "idle"
       ELSE /\ uret' = NotReturned
            /\ upc' = "u_acquire"
  /\ UNCHANGED << warp_storage, lock, calls >>
  /\ UNCHANGED warpVars
  /\ UNCHANGED paramVars

\* Line 356: with _storage_lock.
UnwarpAcquire ==
  /\ upc = "u_acquire"
  /\ lock = "free"
  /\ lock' = "unwarp"
  /\ upc' = "u_read"
  /\ UNCHANGED << warp_storage, calls, uarg, udata, useen, uret >>
  /\ UNCHANGED warpVars
  /\ UNCHANGED paramVars

\* Lines 357-403: read the bundle under the lock, release, build the tuple.
UnwarpRead ==
  /\ upc = "u_read"
  /\ lock = "unwarp"
  /\ udata' = Get(warp_storage, uarg.id, EmptyDict)
  /\ useen' = warp_storage
  /\ lock' = "free"
  /\ uret' = UnwarpRet(Get(warp_storage, uarg.id, EmptyDict))
  /\ upc' = "idle"
  /\ UNCHANGED << warp_storage, calls, uarg >>
  /\ UNCHANGED warpVars
  /\ UNCHANGED paramVars

\* The executor invokes provide() of the WarpProvider node (once: the node
\* runs once per graph evaluation and keeps no state).
Provide(batch_size, seed, steps_1, steps_2, steps_3, cfg, sampler_name, scheduler, size_preset, custom_width, custom_height) ==
  /\ pargs = NotReturned
  /\ calls < MaxCalls
  /\ calls' = calls + 1
  /\ pargs' = << batch_size, seed, steps_1, steps_2, steps_3, cfg, sampler_name,
                 scheduler, size_preset, custom_width, custom_height >>
  /\ pret' = ProvideRet(batch_size, seed, steps_1, steps_2, steps_3, cfg,
                        sampler_name, scheduler, size_preset, custom_width,
                        custom_height)
  /\ UNCHANGED << warp_storage, lock, aarg, aret >>
  /\ UNCHANGED warpVars
  /\ UNCHANGED unwarpVars

\* The executor invokes adapt() of the FDSchedulerAdapter node (once).
Adapt(scheduler) ==
  /\ aarg = None
  /\ calls < MaxCalls
  /\ calls' = calls + 1
  /\ aarg' = scheduler
  /\ aret' = coerce_scheduler_fd(scheduler)
  /\ UNCHANGED << warp_storage, lock, pargs, pret >>
  /\ UNCHANGED warpVars
  /\ UNCHANGED unwarpVars

\* provide() with the defaults of its signature for everything but the two
\* enum inputs.
ProvideEnums ==
  \E sampler_name \in {FirstValue("sampler_name"), SecondValue("sampler_name")},
     scheduler \in {FirstValue("scheduler"), SecondValue("scheduler"), StrV("beta")} :
    Provide(1, 0, 20, 0, 0, 7, sampler_name, scheduler, DEFAULT_SIZE_PRESET, 1024, 1024)

\* provide() with the defaults of its signature for the two enum inputs.
ProvideSizes ==
  \E batch_size \in BatchSizes, sc \in ScalarInputs, size_preset \in PresetInputs,
     custom_width \in CustomSizes, custom_height \in CustomSizes :
    Provide(batch_size, sc[1], sc[2], sc[3], sc[4], sc[5], StrV("euler"),
            StrV("normal"), size_preset, custom_width, custom_height)

AdaptAny == \E name \in SchedulerNames : Adapt(StrV(name))

Next ==
  \/ \E n \in Nodes, w \in WarpInputs, kw \in KwargsInputs : WarpCall(n, w, kw)
  \/ \E n \in Nodes : WarpRead(n)
  \/ \E n \in Nodes : WarpAcquire(n)
  \/ \E n \in Nodes : WarpWrite(n)
  \/ \E w \in WarpInputs : UnwarpCall(w)
  \/ UnwarpAcquire
  \/ UnwarpRead
  \/ ProvideEnums

\* The bundle store with its Warp and Unwarp nodes and a WarpProvider.
Spec == Init /\ [][Next]_vars

NextParams ==
  \/ ProvideSizes
  \/ AdaptAny

\* The two nodes that touch no shared state, over all their inputs.
SpecParams == Init /\ [][NextParams]_vars

----------------------------------------------------------------------------
(* Properties.                                                             *)

\* The completed executions of Warp.warp: << node, position in its log >>.
Executions == { e \in Nodes \X (1..MaxCalls) : e[2] <= Len(log[e[1]]) }

Exec(e) == log[e[1]][e[2]]

\* The bundle an execution found under the identifier of its input, as the
\* store held it when the execution read it.
PriorOf(x) ==
  IF x.warg.kind = "dict" /\ x.warg.id \in DOMAIN x.seen THEN x.seen[x.warg.id]
  ELSE EmptyDict

\* Position of an output name in the tuple of Unwarp.unwarp.
Pos(f) == CHOOSE k \in DOMAIN RETURN_NAMES : RETURN_NAMES[k] = f

\* C1 as stated: the fields the store holds under an identifier that some
\* execution of Warp.warp returned are the fields it held when that execution
\* returned it, whatever executed since.
C1_IssuedBundleNeverChanges ==
  \A e \in Executions :
    /\ Exec(e).ret.id \in DOMAIN warp_storage
    /\ warp_storage[Exec(e).ret.id] = Exec(e).fields

\* C1 amended: executions of other node instances never change a bundle; the
\* fields the store holds under a returned identifier are those of the latest
\* execution of the node that owns the identifier.
C1_BundleChangedOnlyByItsNode ==
  \A n \in Nodes :
    Len(log[n]) > 0 =>
      /\ log[n][Len(log[n])].ret.id \in DOMAIN warp_storage
      /\ warp_storage[log[n][Len(log[n])].ret.id] = log[n][Len(log[n])].fields

\* C1 witness: n2 executed on the bundle n1 had issued and stored different
\* fields, and the bundle of n1 is what n1 returned.
C1_Witness ==
  /\ Len(log["n1"]) = 1
  /\ Len(log["n2"]) = 1
  /\ log["n2"][1].warg = Ref(log["n1"][1].ret.id)
  /\ PriorOf(log["n2"][1]) = log["n1"][1].fields
  /\ DOMAIN log["n1"][1].fields # {}
  /\ log["n2"][1].fields # log["n1"][1].fields
  /\ warp_storage[log["n1"][1].ret.id] = log["n1"][1].fields

\* C2 as stated: every execution of Warp.warp returns an identifier that no
\* other execution returned and that differs from its input's identifier.
C2_EveryExecutionReturnsNewId ==
  \A e \in Executions :
    /\ HasId(Exec(e).warg) => Exec(e).ret.id # Exec(e).warg.id
    /\ \A d \in Executions : d # e => Exec(d).ret.id # Exec(e).ret.id

\* C2 amended: an execution returns the identifier its node instance was
\* constructed with; it differs from the identifier of the input bundle and
\* from every identifier returned by another instance, and it is the
\* identifier every other execution of the same instance returns.
C2_IdentifierPerInstance ==
  \A e \in Executions :
    /\ Exec(e).ret = Ref(WarpId[e[1]])
    /\ HasId(Exec(e).warg) => Exec(e).ret.id # Exec(e).warg.id
    /\ \A d \in Executions :
         /\ d[1] # e[1] => Exec(d).ret.id # Exec(e).ret.id
         /\ d[1] = e[1] => Exec(d).ret.id = Exec(e).ret.id

\* C2 witness: one node executed twice with different results, on a bundle of
\* the other node.
C2_Witness ==
  /\ Len(log["n1"]) = 2
  /\ log["n1"][1].fields # log["n1"][2].fields
  /\ log["n1"][2].warg = Ref(WarpId["n2"])

\* What C3 as stated has a supplied input stored as: the value itself.
C3_AsSupplied(f, v) == v

\* What a supplied input is stored as: sampler_name and scheduler coerced.
C3_AfterCoercion(f, v) ==
  IF f = "sampler_name"
    THEN (IF v.t = "str" /\ InList(v.s, SAFE_SAMPLERS) THEN v ELSE StrV("euler"))
  ELSE IF f = "scheduler"
    THEN (IF v.t = "str" /\ InList(v.s, SAFE_SCHEDULERS) THEN v ELSE StrV("karras"))
  ELSE v

\* The bundle of execution x holds, per field, the supplied value (coerced or
\* as supplied), else the value of the prior bundle, else no entry.
C3_Overlay(x, coerced) ==
  \A f \in FieldNames :
    IF x.kwargs[f] # None
      THEN /\ f \in DOMAIN x.fields
           /\ x.fields[f] = IF coerced THEN C3_AfterCoercion(f, x.kwargs[f])
                            ELSE C3_AsSupplied(f, x.kwargs[f])
    ELSE IF f \in DOMAIN PriorOf(x)
      THEN f \in DOMAIN x.fields /\ x.fields[f] = PriorOf(x)[f]
    ELSE f \notin DOMAIN x.fields

\* C3 as stated: the bundle an execution stores holds, per field, the value
\* supplied when one is supplied, else the value of the prior bundle, else no
\* entry.
C3_OverlaySuppliedValues ==
  \A e \in Executions : C3_Overlay(Exec(e), FALSE)

\* C3 amended: the same, where a supplied input is one that is not None (0 and
\* "" are stored) and sampler_name and scheduler are stored after coercion.
C3_OverlayCoercedValues ==
  \A e \in Executions : C3_Overlay(Exec(e), TRUE)

\* C3 witness: an execution on a bundle that held the object fields, with the
\* parameter inputs supplied at their second values (0, "", names outside the
\* host's lists): it stored a bundle that holds both.
C3_Witness ==
  \E e \in Executions :
    /\ DOMAIN PriorOf(Exec(e)) = ObjectFields
    /\ Exec(e).kwargs["seed"] = IntV(0)
    /\ Exec(e).kwargs["sampler_name"] = StrV("uni_pc")
    /\ Exec(e).kwargs["image"] = None
    /\ DOMAIN Exec(e).fields = FieldNames
    /\ Exec(e).fields["seed"] = IntV(0)
    /\ Exec(e).fields["image"] = PriorOf(Exec(e))["image"]

\* The identifier Unwarp.unwarp looked up was in the store.
UnwarpFound == uret # NotReturned /\ HasId(uarg) /\ uarg.id \in DOMAIN useen

\* C4 as stated: for an identifier in the store unwarp returns 22 outputs in
\* the order of RETURN_NAMES, each the stored value of that name or None.
C4_AbsentFieldsAreNone ==
  UnwarpFound =>
    /\ Len(uret) = 22
    /\ \A k \in 1..22 : uret[k] = Get(useen[uarg.id], RETURN_NAMES[k], None)

C4_Default(f) ==
  IF f = "sampler_name" THEN StrV("euler")
  ELSE IF f = "scheduler" THEN StrV("karras")
  ELSE IF f \in {"width", "height"} THEN IntV(1024)
  ELSE None

\* C4 amended: the same, except that when the stored bundle holds at least
\* one field an absent sampler_name gives "euler", an absent scheduler
\* "karras" and an absent width or height 1024.
C4_AbsentFieldsHaveDefaults ==
  UnwarpFound =>
    /\ Len(uret) = 22
    /\ Len(RETURN_NAMES) = 22
    /\ \A k \in 1..22 :
         uret[k] = IF RETURN_NAMES[k] \in DOMAIN useen[uarg.id]
                     THEN useen[uarg.id][RETURN_NAMES[k]]
                   ELSE IF DOMAIN useen[uarg.id] = {} THEN None
                   ELSE C4_Default(RETURN_NAMES[k])

\* C4 witness: unwarp returned the tuple of a bundle that holds the object
\* fields and no width.
C4_Witness ==
  /\ UnwarpFound
  /\ DOMAIN useen[uarg.id] = ObjectFields
  /\ uret[Pos("model_2")] = useen[uarg.id]["model_2"]
  /\ uret[Pos("width")] = IntV(1024)
  /\ uret[Pos("seed")] = None

\* C5: a thread that is at a read or a write of warp_storage holds
\* _storage_lock, so no thread is at a read while another is at a write.
C5_StoreAccessUnderLock ==
  /\ \A n \in Nodes : pc[n] \in {"w_read", "w_write"} => lock = n
  /\ upc = "u_read" => lock = "unwarp"
  /\ \A n, m \in Nodes : ~(n # m /\ pc[n] = "w_read" /\ pc[m] = "w_write")

\* C6: every sampler_name and scheduler a bundle holds, unwarp returns or
\* provide returns is in SAFE_SAMPLERS / SAFE_SCHEDULERS; a name of the list
\* is kept and any other name, the keys of SCHEDULER_ALIASES included, gives
\* "euler" / "karras".
C6_EnumsAreCoerced ==
  /\ \A x \in DOMAIN warp_storage :
       /\ "sampler_name" \in DOMAIN warp_storage[x]
            => InList(warp_storage[x]["sampler_name"].s, SAFE_SAMPLERS)
       /\ "scheduler" \in DOMAIN warp_storage[x]
            => InList(warp_storage[x]["scheduler"].s, SAFE_SCHEDULERS)
  /\ \A e \in Executions :
       /\ Exec(e).kwargs["sampler_name"] # None =>
            Exec(e).fields["sampler_name"] =
              IF InList(Exec(e).kwargs["sampler_name"].s, SAFE_SAMPLERS)
                THEN Exec(e).kwargs["sampler_name"] ELSE StrV("euler")
       /\ Exec(e).kwargs["scheduler"] # None =>
            Exec(e).fields["scheduler"] =
              IF InList(Exec(e).kwargs["scheduler"].s, SAFE_SCHEDULERS)
                THEN Exec(e).kwargs["scheduler"] ELSE StrV("karras")
  /\ uret # NotReturned =>
       /\ uret[Pos("sampler_name")] # None
            => InList(uret[Pos("sampler_name")].s, SAFE_SAMPLERS)
       /\ uret[Pos("scheduler")] # None
            => InList(uret[Pos("scheduler")].s, SAFE_SCHEDULERS)
  /\ pret # NotReturned =>
       /\ pret[8] = IF InList(pargs[7].s, SAFE_SAMPLERS) THEN pargs[7] ELSE StrV("euler")
       /\ pret[9] = IF InList(pargs[8].s, SAFE_SCHEDULERS) THEN pargs[8] ELSE StrV("karras")
       /\ InList(pret[8].s, SAFE_SAMPLERS)
       /\ InList(pret[9].s, SAFE_SCHEDULERS)
  /\ \A name \in SamplerNames :
       coerce_sampler(StrV(name)) =
         IF InList(name, SAFE_SAMPLERS) THEN StrV(name) ELSE StrV("euler")
  /\ \A name \in SchedulerNames :
       coerce_scheduler(StrV(name)) =
         IF InList(name, SAFE_SCHEDULERS) THEN StrV(name) ELSE StrV("karras")
  /\ \A name \in DOMAIN SCHEDULER_ALIASES : coerce_scheduler(StrV(name)) = StrV("karras")

\* C6 witness: a bundle stored from scheduler "AYS SDXL" and sampler "uni_pc"
\* was unwarped, and provide was given the scheduler "beta".
C6_Witness ==
  /\ \E e \in Executions :
       /\ Exec(e).kwargs["scheduler"] = StrV("AYS SDXL")
       /\ Exec(e).kwargs["sampler_name"] = StrV("uni_pc")
       /\ uarg = Exec(e).ret
       /\ warp_storage[uarg.id]["scheduler"] = StrV("karras")
  /\ uret # NotReturned
  /\ uret[Pos("scheduler")] = StrV("karras")
  /\ uret[Pos("sampler_name")] = StrV("euler")
  /\ pret # NotReturned
  /\ pargs[8] = StrV("beta")
  /\ pret[9] = StrV("karras")

\* C7: whenever unwarp reads the bundle of a node whose latest execution had
\* no input bundle, its tuple holds, for every input that execution supplied,
\* the supplied value (coerced for sampler_name and scheduler) at the position
\* of that name, whatever other Warp nodes executed in between.
C7_RoundTrip ==
  [][ (upc = "u_read" /\ upc' = "idle") =>
        \A n \in Nodes :
          (Len(log[n]) > 0 /\ uarg = log[n][Len(log[n])].ret
             /\ log[n][Len(log[n])].warg = NoWarp)
          => \A f \in FieldNames :
               log[n][Len(log[n])].kwargs[f] # None =>
                 uret'[Pos(f)] = C3_AfterCoercion(f, log[n][Len(log[n])].kwargs[f]) ]_vars

\* C7 witness: n1 executed with no input bundle and every input supplied at
\* its second value, n2 then executed on the bundle of n1, and unwarp then
\* returned the tuple of the bundle of n1.
C7_Witness ==
  /\ Len(log["n1"]) = 1
  /\ log["n1"][1].warg = NoWarp
  /\ \A f \in FieldNames : log["n1"][1].kwargs[f] = SecondValue(f)
  /\ Len(log["n2"]) = 1
  /\ log["n2"][1].warg = log["n1"][1].ret
  /\ log["n1"][1].ret.id \in DOMAIN log["n2"][1].seen
  /\ \A f \in ParamFields : log["n2"][1].kwargs[f] = FirstValue(f)
  /\ uret # NotReturned
  /\ uarg = log["n1"][1].ret
  /\ log["n2"][1].ret.id \in DOMAIN useen
  /\ uret[Pos("seed")] = IntV(0)
  /\ uret[Pos("prompt_positive")] = StrV("")
  /\ uret[Pos("sampler_name")] = StrV("euler")
  /\ uret[Pos("model_1")] = SecondValue("model_1")

\* The separators of the two dimension patterns.
C8_Seps == { << "radic", "oacute" >>, << "x" >>, << "X" >> }

\* The positions where a maximal run of digits starts, and where it ends.
C8_RunStarts(s) == { a \in 1..Len(s) : IsDigit(s[a]) /\ (a = 1 \/ ~IsDigit(s[a - 1])) }

C8_RunEnd(s, a) ==
  CHOOSE b \in a..Len(s) :
    (\A k \in a..b : IsDigit(s[k])) /\ (b = Len(s) \/ ~IsDigit(s[b + 1]))

RECURSIVE C8_Pow10(_)
C8_Pow10(k) == IF k = 0 THEN 1 ELSE 10 * C8_Pow10(k - 1)

\* The number written in decimal at s[a..b].
RECURSIVE C8_Decimal(_, _, _)
C8_Decimal(s, a, b) ==
  IF a > b THEN 0 ELSE DigitValue(s[a]) * C8_Pow10(b - a) + C8_Decimal(s, a + 1, b)

\* s[b+1 .. c-1] is a separator with whitespace around it.
C8_Gap(s, b, c) ==
  \E sep \in C8_Seps, j \in (b + 1)..(c - 1) :
    /\ j + Len(sep) <= c
    /\ SubSeq(s, j, j + Len(sep) - 1) = sep
    /\ \A k \in (b + 1)..(j - 1) : IsSpace(s[k])
    /\ \A k \in (j + Len(sep))..(c - 1) : IsSpace(s[k])

\* The << W, H >> of every "W x H" pattern of s: two numbers with a separator
\* between them.
C8_PatternPairs(s) ==
  { << C8_Decimal(s, p[1], C8_RunEnd(s, p[1])), C8_Decimal(s, p[2], C8_RunEnd(s, p[2])) >> :
      p \in { q \in C8_RunStarts(s) \X C8_RunStarts(s) :
                q[1] < q[2] /\ C8_Gap(s, C8_RunEnd(s, q[1]), q[2]) } }

\* The dimensions the entries of size_presets name, as the list reads.
C8_ListedDims ==
  << << 576, 1024 >>, << 720, 1280 >>, << 1080, 1920 >>, << 1152, 2048 >>,
     << 768, 1024 >>, << 1152, 1536 >>, << 1536, 2048 >>,
     << 832, 1248 >>, << 1024, 1536 >>, << 1368, 2048 >>,
     << 816, 1024 >>, << 1224, 1536 >>, << 1640, 2048 >>,
     << 768, 768 >>, << 1024, 1024 >>, << 1536, 1536 >>, << 2048, 2048 >>,
     << 1024, 816 >>, << 1536, 1224 >>, << 2048, 1640 >>,
     << 1248, 832 >>, << 1536, 1024 >>, << 2048, 1368 >>,
     << 1024, 768 >>, << 1536, 1152 >>, << 2048, 1536 >>,
     << 1024, 576 >>, << 1280, 720 >>, << 1920, 1080 >>, << 2048, 1152 >> >>

\* C8: provide returns custom_width x custom_height for "Custom", else the
\* two numbers of a "W x H" pattern of the preset (for an entry of the list,
\* the dimensions it names), else 1024 x 1024; the latent has the shape
\* [batch_size, 4, height // 8, width // 8]; batch_size, seed, steps_1,
\* steps_2, steps_3 and cfg are returned as given.
C8_ProvideDimensions ==
  pret # NotReturned =>
    /\ pargs[9] = CUSTOM => (pret[10] = pargs[10] /\ pret[11] = pargs[11])
    /\ pargs[9] # CUSTOM =>
         IF C8_PatternPairs(pargs[9]) # {}
           THEN << pret[10], pret[11] >> \in C8_PatternPairs(pargs[9])
           ELSE << pret[10], pret[11] >> = << 1024, 1024 >>
    /\ \A k \in DOMAIN C8_ListedDims :
         pargs[9] = SIZE_PRESETS[k] => << pret[10], pret[11] >> = C8_ListedDims[k]
    /\ pret[1] = << pargs[1], 4, pret[11] \div 8, pret[10] \div 8 >>
    /\ \A k \in 1..6 : pret[k + 1] = pargs[k]

\* C8 witness: provide was given the first preset of the list with a batch of
\* two and returned 576 x 1024 and a latent of shape [2, 4, 128, 72].
C8_Witness ==
  /\ pret # NotReturned
  /\ pargs[9] = SIZE_PRESETS[1]
  /\ pargs[1] = 2
  /\ pret[10] = 576
  /\ pret[11] = 1024
  /\ pret[1] = << 2, 4, 128, 72 >>
  /\ pret[3] = 5

\* C9: a step of Unwarp.unwarp never changes the store, and a call with no
\* bundle, with a value that is no dict with an "id", with an identifier that
\* is not in the store or with a stored bundle of no fields returns 22 None.
C9_UnwarpFailsSoft ==
  [][ (unwarpVars' # unwarpVars) =>
        /\ warp_storage' = warp_storage
        /\ (upc' = "idle" /\
              \/ uarg'.kind = "none"
              \/ uarg'.kind # "dict"
              \/ uarg'.id \notin DOMAIN warp_storage
              \/ DOMAIN warp_storage[uarg'.id] = {})
           => /\ Len(uret') = 22
              /\ \A k \in 1..22 : uret'[k] = None ]_vars

\* C9 witness: unwarp looked up an identifier under which the store holds a
\* bundle of no fields, and returned 22 None.
C9_Witness ==
  /\ uret # NotReturned
  /\ HasId(uarg)
  /\ uarg.id \in DOMAIN useen
  /\ DOMAIN useen[uarg.id] = {}
  /\ useen = warp_storage
  /\ \A k \in 1..22 : uret[k] = None

\* C10: adapt returns a member of FD_SCHEDULERS for every name: the name when
\* it is in FD_SCHEDULERS, else its alias when that is in FD_SCHEDULERS, else
\* "karras"; every scheduler of the host's list maps into FD_SCHEDULERS.
C10_AdaptIntoFdSchedulers ==
  /\ aarg # None =>
       /\ aret.t = "str"
       /\ InList(aret.s, FD_SCHEDULERS)
       /\ aret = IF InList(aarg.s, FD_SCHEDULERS) THEN aarg
                 ELSE IF aarg.s \in DOMAIN SCHEDULER_ALIASES
                         /\ InList(SCHEDULER_ALIASES[aarg.s], FD_SCHEDULERS)
                   THEN StrV(SCHEDULER_ALIASES[aarg.s])
                 ELSE StrV("karras")
  /\ \A k \in DOMAIN SAFE_SCHEDULERS :
       InList(coerce_scheduler_fd(StrV(SAFE_SCHEDULERS[k])).s, FD_SCHEDULERS)

\* C10 witness: adapt was given a name outside FD_SCHEDULERS and without an
\* alias, and returned "karras".
C10_Witness ==
  /\ aarg = StrV("res_multistep")
  /\ aret = StrV("karras")

\* One execution of Warp.warp run alone on the store st by node n with the
\* inputs of the logged execution x: the store it leaves.
C11_RunAlone(st, n, x) ==
  Put(st, WarpId[n], ApplyUpdates(PriorData(st, x.warg), Updates(x.kwargs), 1))

\* The store after the first executions of nodes a and b run one after the
\* other, a first, from the empty store.
C11_Serial(a, b) ==
  C11_RunAlone(C11_RunAlone(EmptyStore, a, log[a][1]), b, log[b][1])

\* Both nodes have executed once, nothing else has touched the store.
C11_BothDone == \A n \in Nodes : Len(log[n]) = 1 /\ pc[n] = "idle"

\* C11 as stated: when two Warp nodes have each executed once, in any
\* interleaving of their store reads and locked writes and with any inputs,
\* the store equals the store left by running the two executions one after
\* the other in some order.
C11_ConcurrentWarpsSerializable ==
  C11_BothDone =>
    warp_storage \in { C11_Serial("n1", "n2"), C11_Serial("n2", "n1") }

\* The part of C11 that the code keeps: unless the two executions take each
\* other's identifiers as input, the store equals that of a serial order.
C11_SerializableUnlessMutual ==
  (C11_BothDone /\ ~(/\ log["n1"][1].warg = Ref(WarpId["n2"])
                     /\ log["n2"][1].warg = Ref(WarpId["n1"]))) =>
    warp_storage \in { C11_Serial("n1", "n2"), C11_Serial("n2", "n1") }

\* The entries of size_presets other than "Custom".
C12_Entries == { k \in DOMAIN SIZE_PRESETS : SIZE_PRESETS[k] # CUSTOM }

C12_Min(a, b) == IF a <= b THEN a ELSE b

\* C12: every entry of size_presets other than "Custom" names a width and a
\* height divisible by 8 with the smaller one at most 2048, and provide,
\* given such an entry, returns that width and height and a latent whose
\* last two dimensions times 8 are exactly the returned height and width.
C12_PresetsGiveExactLatent ==
  /\ \A k \in C12_Entries :
       /\ C8_ListedDims[k][1] % 8 = 0
       /\ C8_ListedDims[k][2] % 8 = 0
       /\ C12_Min(C8_ListedDims[k][1], C8_ListedDims[k][2]) <= 2048
  /\ \A k \in C12_Entries :
       (pret # NotReturned /\ pargs[9] = SIZE_PRESETS[k]) =>
         /\ << pret[10], pret[11] >> = C8_ListedDims[k]
         /\ pret[10] % 8 = 0
         /\ pret[11] % 8 = 0
         /\ C12_Min(pret[10], pret[11]) <= 2048
         /\ pret[1][4] * 8 = pret[10]
         /\ pret[1][3] * 8 = pret[11]

\* C12 witness: provide was given the entry "Photo portrait (max)" and
\* returned 1368 x 2048 with a latent of 256 x 171.
C12_Witness ==
  /\ pret # NotReturned
  /\ pargs[9] = SIZE_PRESETS[10]
  /\ pret[10] = 1368
  /\ pret[11] = 2048
  /\ pret[1][3] * 8 = 2048
  /\ pret[1][4] * 8 = 1368

====
